---- MODULE Spec2Model ----
(***************************************************************************)
(* laal65/boltzmann-machines: the TensorFlowModel base class                *)
(* (hdp_dbm/base/_tf.py) and the RBM built on it (hdp_dbm/rbm.py).          *)
(*                                                                         *)
(* Spec       the life of one model instance in one process: fit,          *)
(*            load_model and get_weights, each cut at the framework calls   *)
(*            it makes (session enter/exit, initialiser, train op, save,    *)
(*            restore).                                                    *)
(*                                                                         *)
(* SpecTrainOp one run of the train op built by _make_train_op on one batch: *)
(*            the Gibbs chain and the three gradient estimates, on a small  *)
(*            RBM whose batch, noise and weights are drawn in the initial   *)
(*            states.  Means are in eighths (sigmoid rounded), a quotient   *)
(*            is kept as numerator and denominator.                         *)
(*                                                                         *)
(* Modelled as given: the instance exists (the constructor chain of        *)
(* BaseRBM -> TensorFlowModel -> BaseModel is not followed); file and       *)
(* checkpoint I/O succeeds when its file exists; variable values live in    *)
(* the session and are gone when it closes; load_model is called in a       *)
(* process whose graph is still empty, so its Saver covers one generation   *)
(* of variables.  An exception leaves through the with block.               *)
(*                                                                         *)
(* Numbers: the weights are floats in the code; here they are integers and  *)
(* learning_rate, momentum and the gradient estimates fed to the update     *)
(* are drawn from small integer sets.  The update itself is computed with   *)
(* the code's expression.                                                   *)
(***************************************************************************)
EXTENDS Integers, Sequences, FiniteSets, TLC

\* ------------------------------------------------------------------ bounds
MaxEpoch == 2          \* max_epoch is drawn from 0..MaxEpoch
MaxBatches == 2        \* X has 1..MaxBatches batches
MaxMetricsEvery == 3   \* compute_metrics_every is drawn from 2..MaxMetricsEvery

MaxRows == 2           \* a batch has 1..MaxRows rows, batch_size <= MaxRows
MaxGibbs == 2          \* n_gibbs_steps is drawn from 1..MaxGibbs
NVisible == 1          \* n_visible of the small RBM
NHidden == 1           \* n_hidden of the small RBM

MomentumValues == {0, 2}
LearningRates == {1}
GradValues == {-1, 1}

ParamNames == {"W", "hb", "vb"}
GradVar(p) == CASE p = "W" -> "dW" [] p = "hb" -> "dhb" [] p = "vb" -> "dvb"

VARIABLES
    pc,                     \* where the running operation stands ("idle": none)
    op,                     \* the operation called last
    exc,                    \* the exception propagating out of the operation
    ret,                    \* the value the operation is about to return
    result,                 \* outcome of the last operation that ended
    called_fit, save_model, \* TensorFlowModel attributes
    max_epoch, compute_metrics_every, momentum, learning_rate,
    epoch, iter,            \* BaseRBM counters
    X, X_val, batch,        \* fit's arguments (X as its number of batches)
    collections,            \* graph collections 'train_op', 'msre', 'transform_op'
    W_ref,                  \* the variable generation self._W/_hb/_vb refer to
    train_op,               \* self._train_op: generation of the picked op
    tf_saver,               \* self._tf_saver: number of generations it covers
    open_sessions,          \* sessions entered and not yet exited
    sess_vars,              \* variable values held by the open session
    params_file, checkpoint,\* the model directory
    last_op,                \* the framework call made by the last step
    fit_e0, fit_grads,      \* history: epoch at fit's call, gradients fed since
    fits_completed,         \* history: some fit call has returned normally
    \* ---- one run of the train op (SpecTrainOp)
    t_pc,                   \* "start", "sweep", "done" ("off" under Spec)
    X_batch, h_rand, v_rand,\* the placeholders fed: rows of units
    W, hb, vb,              \* the weight variables
    n_gibbs_steps, batch_size,
    h0_means, h0_samples,   \* tensors of the Gibbs chain
    h_means, h_samples, v_means, v_samples,
    chain,                  \* history: one record per sweep made
    dW, dhb, dvb            \* the gradient estimates

config_vars == <<max_epoch, compute_metrics_every, momentum, learning_rate>>
model_state == <<called_fit, save_model, config_vars, epoch, iter, X, X_val, batch,
                 collections, W_ref, train_op, tf_saver, open_sessions, sess_vars,
                 params_file, checkpoint>>
life_vars == <<pc, op, exc, ret, result, model_state, last_op, fit_e0, fit_grads,
               fits_completed>>
train_vars == <<t_pc, X_batch, h_rand, v_rand, W, hb, vb, n_gibbs_steps, batch_size,
                h0_means, h0_samples, h_means, h_samples, v_means, v_samples, chain,
                dW, dhb, dvb>>
vars == <<life_vars, train_vars>>

NoFile == [present |-> FALSE]
EmptyDict == <<>>
NoResult == [op |-> "none", status |-> "none", value |-> EmptyDict]

\* ------------------------------------------------- attribute names: vars(self)
TensorFlowModel_attrs ==
    { <<"_","m","o","d","e","l","_","d","i","r","p","a","t","h">>,
      <<"_","m","o","d","e","l","_","f","i","l","e","p","a","t","h">>,
      <<"_","p","a","r","a","m","s","_","f","i","l","e","p","a","t","h">>,
      <<"_","s","u","m","m","a","r","y","_","d","i","r","p","a","t","h">>,
      <<"s","a","v","e","_","m","o","d","e","l">>,
      <<"c","a","l","l","e","d","_","f","i","t">>,
      <<"_","t","f","_","m","e","r","g","e","d","_","s","u","m","m","a","r","i","e","s">>,
      <<"_","t","f","_","s","a","v","e","r">>,
      <<"_","t","f","_","s","e","s","s","i","o","n">>,
      <<"_","t","f","_","s","u","m","m","a","r","y","_","w","r","i","t","e","r">> }

BaseRBM_attrs ==
    { <<"n","_","v","i","s","i","b","l","e">>,
      <<"n","_","h","i","d","d","e","n">>,
      <<"w","_","s","t","d">>,
      <<"n","_","g","i","b","b","s","_","s","t","e","p","s">>,
      <<"l","e","a","r","n","i","n","g","_","r","a","t","e">>,
      <<"m","o","m","e","n","t","u","m">>,
      <<"b","a","t","c","h","_","s","i","z","e">>,
      <<"m","a","x","_","e","p","o","c","h">>,
      <<"c","o","m","p","u","t","e","_","m","e","t","r","i","c","s","_","e","v","e","r","y">>,
      <<"v","e","r","b","o","s","e">>,
      <<"e","p","o","c","h">>,
      <<"i","t","e","r">>,
      <<"_","X","_","b","a","t","c","h">>,
      <<"_","h","_","r","a","n","d">>,
      <<"_","v","_","r","a","n","d">>,
      <<"_","W">>,
      <<"_","h","b">>,
      <<"_","v","b">>,
      <<"_","d","W">>,
      <<"_","d","h","b">>,
      <<"_","d","v","b">>,
      <<"_","t","r","a","i","n","_","o","p">>,
      <<"_","t","r","a","n","s","f","o","r","m","_","o","p">>,
      <<"_","m","s","r","e">> }

\* attributes _make_init_op adds the first time the graph is built
make_init_op_attrs ==
    { <<"_","l","e","a","r","n","i","n","g","_","r","a","t","e">>,
      <<"_","m","o","m","e","n","t","u","m">> }

\* attributes of the BaseModel parent that BaseRBM reads
BaseModel_attrs ==
    { <<"r","a","n","d","o","m","_","s","e","e","d">>, <<"_","r","n","g">> }

instance_vars ==
    TensorFlowModel_attrs \cup BaseRBM_attrs \cup BaseModel_attrs
        \cup (IF W_ref > 0 THEN make_init_op_attrs ELSE {})

W_attr == <<"_","W">>
hb_attr == <<"_","h","b">>
vb_attr == <<"_","v","b">>

startswith(name, c) == Len(name) >= 1 /\ name[1] = c
endswith(name, c) == Len(name) >= 1 /\ name[Len(name)] = c

is_weight_name(name) == ~ startswith(name, "_") /\ endswith(name, "_")

\* ------------------------------------------------------- framework values
\* tf.global_variables_initializer: W from the seeded normal, biases and
\* grads zeros (one value stands for every element of the tensor)
InitVars == [W |-> 0, hb |-> 0, vb |-> 0, dW |-> 0, dhb |-> 0, dvb |-> 0]
\* the variables of a checkpoint left by an earlier run of the program
PriorVars == [W |-> 1, hb |-> 1, vb |-> 1, dW |-> 0, dhb |-> 0, dvb |-> 0]

global_variables_initializer == [g \in 1..Len(collections) |-> InitVars]

get_params ==
    [present |-> TRUE, max_epoch |-> max_epoch,
     compute_metrics_every |-> compute_metrics_every,
     momentum |-> momentum, learning_rate |-> learning_rate]

\* the momentum_updates block for one parameter: the tensor bound to
\* self._dW is momentum * <variable dW> + <estimate>; only the weight
\* variable is assigned
momentum_update(v, p, g) ==
    [v EXCEPT ![p] = v[p] + learning_rate * (momentum * v[GradVar(p)] + g[p])]

\* tf.group(W_update, hb_update, vb_update) run on generation gen
run_train_op(sv, gen, g) ==
    [sv EXCEPT ![gen] =
        momentum_update(momentum_update(momentum_update(sv[gen], "W", g), "hb", g),
                        "vb", g)]

\* ---------------------------------------------------------------- Init
LifeInit ==
    /\ pc = "idle" /\ op = "none" /\ exc = "none" /\ ret = EmptyDict
    /\ result = NoResult
    /\ called_fit = FALSE
    /\ save_model \in BOOLEAN
    /\ max_epoch \in 0..MaxEpoch
    /\ compute_metrics_every \in 2..MaxMetricsEvery
    /\ momentum \in MomentumValues
    /\ learning_rate \in LearningRates
    /\ epoch = 0 /\ iter = 0
    /\ X = 0 /\ X_val = FALSE /\ batch = 0
    /\ collections = <<>>
    /\ W_ref = 0 /\ train_op = 0 /\ tf_saver = 0
    /\ open_sessions = 0
    /\ sess_vars = <<>>
    /\ \/ params_file = NoFile /\ checkpoint = <<>>
       \/ params_file = get_params /\ checkpoint = <<PriorVars>>
    /\ last_op = "none"
    /\ fit_e0 = 0 /\ fit_grads = <<>>
    /\ fits_completed = FALSE

\* ------------------------------------------------------------ sessions
\* `with tf.Session() as self._tf_session:` entered
Session_enter ==
    /\ pc \in {"fit_enter", "load_enter", "gw_enter"}
    /\ open_sessions' = open_sessions + 1
    /\ sess_vars' = <<>>
    /\ pc' = CASE pc = "fit_enter" -> "fit_init"
               [] pc = "load_enter" -> "load_restore"
               [] pc = "gw_enter" -> "gw_restore"
    /\ last_op' = "open"
    /\ UNCHANGED <<train_vars, op, exc, ret, result, called_fit, save_model, config_vars, epoch,
                   iter, X, X_val, batch, collections, W_ref, train_op, tf_saver,
                   params_file, checkpoint, fit_e0, fit_grads, fits_completed>>

\* a with block that closes the session only when its body ends normally
Session_exit_leaky ==
    /\ pc \in {"fit_exit", "load_exit", "gw_exit"}
    /\ open_sessions' = IF exc = "none" THEN open_sessions - 1 ELSE open_sessions
    /\ sess_vars' = IF exc = "none" THEN <<>> ELSE sess_vars
    /\ pc' = "idle"
    /\ result' = [op |-> op, status |-> IF exc = "none" THEN "ok" ELSE exc,
                  value |-> ret]
    /\ fits_completed' = (fits_completed \/ (op = "fit" /\ exc = "none"))
    /\ exc' = "none" /\ ret' = EmptyDict
    /\ last_op' = "close"
    /\ UNCHANGED <<train_vars, op, called_fit, save_model, config_vars, epoch, iter, X, X_val,
                   batch, collections, W_ref, train_op, tf_saver, params_file,
                   checkpoint, fit_e0, fit_grads>>

\* the with block left, by return or by exception: the session is closed
\* and the operation ends
Session_exit ==
    /\ pc \in {"fit_exit", "load_exit", "gw_exit"}
    /\ open_sessions' = open_sessions - 1
    /\ sess_vars' = <<>>
    /\ pc' = "idle"
    /\ result' = [op |-> op, status |-> IF exc = "none" THEN "ok" ELSE exc,
                  value |-> ret]
    /\ fits_completed' = (fits_completed \/ (op = "fit" /\ exc = "none"))
    /\ exc' = "none" /\ ret' = EmptyDict
    /\ last_op' = "close"
    /\ UNCHANGED <<train_vars, op, called_fit, save_model, config_vars, epoch, iter, X, X_val,
                   batch, collections, W_ref, train_op, tf_saver, params_file,
                   checkpoint, fit_e0, fit_grads>>

\* ----------------------------------------------------------------- fit
\* fit called with X of nb batches: the graph is built unless called_fit
fit(nb, xv) ==
    /\ pc = "idle"
    /\ op' = "fit"
    /\ X' = nb /\ X_val' = xv /\ batch' = 0
    /\ IF ~ called_fit
         THEN /\ collections' = Append(collections, Len(collections) + 1)
              /\ W_ref' = Len(collections) + 1
              /\ last_op' = "build"
         ELSE /\ UNCHANGED <<collections, W_ref>>
              /\ last_op' = "none"
    /\ fit_e0' = epoch
    /\ fit_grads' = <<>>
    /\ pc' = "fit_enter"
    /\ UNCHANGED <<train_vars, exc, ret, result, called_fit, save_model, config_vars, epoch, iter,
                   train_op, tf_saver, open_sessions, sess_vars, params_file,
                   checkpoint, fits_completed>>

\* _init_tf_ops: every variable of the graph initialised, a Saver made
init_tf_ops ==
    /\ pc = "fit_init"
    /\ sess_vars' = global_variables_initializer
    /\ tf_saver' = Len(collections)
    /\ last_op' = "init"
    /\ pc' = "fit_pick"
    /\ UNCHANGED <<train_vars, op, exc, ret, result, called_fit, save_model, config_vars, epoch,
                   iter, X, X_val, batch, collections, W_ref, train_op, open_sessions,
                   params_file, checkpoint, fit_e0, fit_grads, fits_completed>>

\* _fit picks the first entry of the collections
fit_pick_ops ==
    /\ pc = "fit_pick"
    /\ train_op' = collections[1]
    /\ last_op' = "none"
    /\ pc' = "fit_loop"
    /\ UNCHANGED <<train_vars, op, exc, ret, result, called_fit, save_model, config_vars, epoch,
                   iter, X, X_val, batch, collections, W_ref, tf_saver, open_sessions,
                   sess_vars, params_file, checkpoint, fit_e0, fit_grads,
                   fits_completed>>

\* while self.epoch < self.max_epoch: self.epoch += 1
fit_next_epoch ==
    /\ pc = "fit_loop"
    /\ epoch < max_epoch
    /\ epoch' = epoch + 1
    /\ batch' = 0
    /\ last_op' = "none"
    /\ pc' = "fit_epoch"
    /\ UNCHANGED <<train_vars, op, exc, ret, result, called_fit, save_model, config_vars, iter, X,
                   X_val, collections, W_ref, train_op, tf_saver, open_sessions,
                   sess_vars, params_file, checkpoint, fit_e0, fit_grads,
                   fits_completed>>

\* one batch of _train_epoch, fed the gradient estimates g; on a metrics
\* iteration the train op runs and self._tf_train_writer is then read
train_epoch_batch(g) ==
    /\ pc = "fit_epoch"
    /\ batch < X
    /\ iter' = iter + 1
    /\ sess_vars' = run_train_op(sess_vars, train_op, g)
    /\ fit_grads' = Append(fit_grads, g)
    /\ last_op' = "train"
    /\ IF iter' % compute_metrics_every = 0
         THEN /\ exc' = "AttributeError"
              /\ pc' = "fit_exit"
              /\ batch' = batch
         ELSE /\ exc' = exc
              /\ pc' = pc
              /\ batch' = batch + 1
    /\ UNCHANGED <<train_vars, op, ret, result, called_fit, save_model, config_vars, epoch, X,
                   X_val, collections, W_ref, train_op, tf_saver, open_sessions,
                   params_file, checkpoint, fit_e0, fits_completed>>

\* the epoch's batches are done and X_val was given: _run_val_metrics
\* evaluates msre and reads self._tf_val_writer
run_val_metrics ==
    /\ pc = "fit_epoch"
    /\ batch = X
    /\ X_val
    /\ exc' = "AttributeError"
    /\ last_op' = "eval"
    /\ pc' = "fit_exit"
    /\ UNCHANGED <<train_vars, op, ret, result, called_fit, save_model, config_vars, epoch, iter,
                   X, X_val, batch, collections, W_ref, train_op, tf_saver,
                   open_sessions, sess_vars, params_file, checkpoint, fit_e0,
                   fit_grads, fits_completed>>

\* the epoch's batches are done: self._save_model(global_step=self.epoch),
\* a keyword _save_model does not take
fit_epoch_save ==
    /\ pc = "fit_epoch"
    /\ batch = X
    /\ ~ X_val
    /\ exc' = "TypeError"
    /\ last_op' = "none"
    /\ pc' = "fit_exit"
    /\ UNCHANGED <<train_vars, op, ret, result, called_fit, save_model, config_vars, epoch, iter,
                   X, X_val, batch, collections, W_ref, train_op, tf_saver,
                   open_sessions, sess_vars, params_file, checkpoint, fit_e0,
                   fit_grads, fits_completed>>

\* a fit that sets called_fit and never saves
fit_return_nosave ==
    /\ pc = "fit_loop"
    /\ ~ (epoch < max_epoch)
    /\ called_fit' = TRUE
    /\ last_op' = "none"
    /\ pc' = "fit_exit"
    /\ UNCHANGED <<train_vars, op, exc, ret, result, save_model, config_vars, epoch, iter, X,
                   X_val, batch, collections, W_ref, train_op, tf_saver, open_sessions,
                   sess_vars, params_file, checkpoint, fit_e0, fit_grads,
                   fits_completed>>

\* the loop of _fit is over: called_fit is set and, with save_model,
\* _save_model writes params.json and the checkpoint
fit_return ==
    /\ pc = "fit_loop"
    /\ ~ (epoch < max_epoch)
    /\ called_fit' = TRUE
    /\ IF save_model
         THEN /\ params_file' = get_params
              /\ checkpoint' = sess_vars
              /\ last_op' = "save"
         ELSE /\ UNCHANGED <<params_file, checkpoint>>
              /\ last_op' = "none"
    /\ pc' = "fit_exit"
    /\ UNCHANGED <<train_vars, op, exc, ret, result, save_model, config_vars, epoch, iter, X,
                   X_val, batch, collections, W_ref, train_op, tf_saver, open_sessions,
                   sess_vars, fit_e0, fit_grads, fits_completed>>

\* ---------------------------------------------------------- load_model
\* load_model in a process whose graph is still empty; params.json missing
load_model_missing ==
    /\ pc = "idle"
    /\ Len(collections) = 0
    /\ ~ params_file.present
    /\ op' = "load_model"
    /\ result' = [op |-> "load_model", status |-> "IOError", value |-> EmptyDict]
    /\ last_op' = "none"
    /\ UNCHANGED <<train_vars, pc, exc, ret, model_state, fit_e0, fit_grads, fits_completed>>

\* load_model: a new instance takes the place of the model, its parameters
\* read from params.json, its graph built and a Saver made
load_model ==
    /\ pc = "idle"
    /\ Len(collections) = 0
    /\ params_file.present
    /\ op' = "load_model"
    /\ called_fit' = FALSE
    /\ save_model' = TRUE
    /\ max_epoch' = params_file.max_epoch
    /\ compute_metrics_every' = params_file.compute_metrics_every
    /\ momentum' = params_file.momentum
    /\ learning_rate' = params_file.learning_rate
    /\ epoch' = 0 /\ iter' = 0
    /\ X' = 0 /\ X_val' = FALSE /\ batch' = 0
    /\ collections' = Append(collections, Len(collections) + 1)
    /\ W_ref' = Len(collections) + 1
    /\ train_op' = 0
    /\ tf_saver' = Len(collections) + 1
    /\ last_op' = "build"
    /\ fit_e0' = 0 /\ fit_grads' = <<>>
    /\ fits_completed' = FALSE
    /\ pc' = "load_enter"
    /\ UNCHANGED <<train_vars, exc, ret, result, open_sessions, sess_vars, params_file,
                   checkpoint>>

\* inside load_model's session: initialiser, then Saver.restore
load_model_restore ==
    /\ pc = "load_restore"
    /\ sess_vars' = [g \in 1..tf_saver |-> checkpoint[g]]
    /\ last_op' = "restore"
    /\ pc' = "load_exit"
    /\ UNCHANGED <<train_vars, op, exc, ret, result, called_fit, save_model, config_vars, epoch,
                   iter, X, X_val, batch, collections, W_ref, train_op, tf_saver,
                   open_sessions, params_file, checkpoint, fit_e0, fit_grads,
                   fits_completed>>

\* --------------------------------------------------------- get_weights
get_weights_guard_swapped ==
    IF ~ save_model THEN "RuntimeError"
    ELSE IF ~ called_fit THEN "ValueError"
    ELSE "none"
\* the two guard clauses of get_weights
get_weights_guard ==
    IF ~ called_fit THEN "ValueError"
    ELSE IF ~ save_model THEN "RuntimeError"
    ELSE "none"

get_weights_raise ==
    /\ pc = "idle"
    /\ get_weights_guard # "none"
    /\ op' = "get_weights"
    /\ result' = [op |-> "get_weights", status |-> get_weights_guard,
                  value |-> EmptyDict]
    /\ last_op' = "none"
    /\ UNCHANGED <<train_vars, pc, exc, ret, model_state, fit_e0, fit_grads, fits_completed>>

\* the attributes get_weights keeps
weight_keys == {key \in instance_vars : is_weight_name(key)}

get_weights ==
    /\ pc = "idle"
    /\ get_weights_guard = "none"
    /\ op' = "get_weights"
    /\ last_op' = "none"
    /\ pc' = "gw_enter"
    /\ UNCHANGED <<train_vars, exc, ret, result, model_state, fit_e0, fit_grads, fits_completed>>

\* value.eval() of an attribute in the session
eval(sv, key) ==
    CASE key = W_attr -> sv[W_ref].W
      [] key = hb_attr -> sv[W_ref].hb
      [] key = vb_attr -> sv[W_ref].vb
      [] OTHER -> 0

\* inside get_weights' session: Saver.restore, then each kept attribute
\* is evaluated (an attribute that is no variable has no eval)
get_weights_restore ==
    /\ pc = "gw_restore"
    /\ sess_vars' = [g \in 1..tf_saver |-> checkpoint[g]]
    /\ last_op' = "restore"
    /\ IF weight_keys \subseteq {W_attr, hb_attr, vb_attr}
         THEN /\ ret' = [key \in weight_keys |-> eval(sess_vars', key)]
              /\ exc' = exc
         ELSE /\ ret' = ret
              /\ exc' = "AttributeError"
    /\ pc' = "gw_exit"
    /\ UNCHANGED <<train_vars, op, result, called_fit, save_model, config_vars, epoch, iter, X,
                   X_val, batch, collections, W_ref, train_op, tf_saver,
                   open_sessions, params_file, checkpoint, fit_e0, fit_grads,
                   fits_completed>>

\* ---------------------------------------------------------------- Next
Next ==
    \/ \E nb \in 1..MaxBatches, xv \in BOOLEAN : fit(nb, xv)
    \/ Session_enter
    \/ init_tf_ops
    \/ fit_pick_ops
    \/ fit_next_epoch
    \/ \E g \in [ParamNames -> GradValues] : train_epoch_batch(g)
    \/ run_val_metrics
    \/ fit_epoch_save
    \/ fit_return
    \/ Session_exit
    \/ load_model_missing
    \/ load_model
    \/ load_model_restore
    \/ get_weights_raise
    \/ get_weights
    \/ get_weights_restore

\* ======================================================================
\* One run of the train op
\* ======================================================================
Visible == 1..NVisible
Hidden == 1..NHidden
DataValues == {0, 1}
NoiseValues == {1, 5}       \* uniform noise, in eighths
WeightValues == {-1, 1}
BiasValues == {0, 1}

RECURSIVE SumTo(_, _)
SumTo(f, n) == IF n = 0 THEN 0 ELSE f[n] + SumTo(f, n - 1)

\* tf.nn.sigmoid, rounded to eighths
sigmoid(x) ==
    IF x <= -2 THEN 1 ELSE IF x = -1 THEN 2 ELSE IF x = 0 THEN 4
    ELSE IF x = 1 THEN 6 ELSE 7

\* tf.to_float(tf.less(rand, means)), elementwise
less_to_float(rand, means) ==
    [r \in DOMAIN means |->
        [u \in DOMAIN means[r] |-> IF rand[r][u] < means[r][u] THEN 1 ELSE 0]]

\* tf.matmul(v, W) + hb
propup(v) ==
    [r \in DOMAIN v |->
        [j \in Hidden |-> SumTo([i \in Visible |-> v[r][i] * W[i][j]], NVisible) + hb[j]]]

\* tf.matmul(h, W, transpose_b=True) + vb
propdown(h) ==
    [r \in DOMAIN h |->
        [i \in Visible |-> SumTo([j \in Hidden |-> h[r][j] * W[i][j]], NHidden) + vb[i]]]

sigmoid_all(m) == [r \in DOMAIN m |-> [u \in DOMAIN m[r] |-> sigmoid(m[r][u])]]

sample_h_given_v(v) ==
    LET means == sigmoid_all(propup(v))
    IN  [means |-> means, samples |-> less_to_float(h_rand, means)]

sample_v_given_h(h) ==
    LET means == sigmoid_all(propdown(h))
    IN  [means |-> means, samples |-> less_to_float(v_rand, means)]

Rows == DOMAIN X_batch
NoTensor == <<>>

\* a noise or data matrix of n rows over the units U, one value per row
RowMatrices(n, U, S) == {[r \in 1..n |-> [u \in U |-> f[r]]] : f \in [1..n -> S]}
\* a data matrix of n rows over the visible units
DataMatrices(n) == [1..n -> [Visible -> DataValues]]

TrainInit ==
    /\ t_pc = "start"
    /\ \E n \in 1..MaxRows :
          /\ X_batch \in DataMatrices(n)
          /\ h_rand \in RowMatrices(n, Hidden, NoiseValues)
          /\ v_rand \in RowMatrices(n, Visible, NoiseValues)
          /\ batch_size \in n..MaxRows
    /\ \E w \in WeightValues : W = [i \in Visible |-> [j \in Hidden |-> w]]
    /\ \E b \in BiasValues : hb = [j \in Hidden |-> b]
    /\ \E b \in BiasValues : vb = [i \in Visible |-> b]
    /\ n_gibbs_steps \in 1..MaxGibbs
    /\ h0_means = NoTensor /\ h0_samples = NoTensor
    /\ h_means = NoTensor /\ h_samples = NoTensor
    /\ v_means = NoTensor /\ v_samples = NoTensor
    /\ chain = <<>>
    /\ dW = NoTensor /\ dhb = NoTensor /\ dvb = NoTensor

TrainOff ==
    /\ t_pc = "off"
    /\ X_batch = NoTensor /\ h_rand = NoTensor /\ v_rand = NoTensor
    /\ W = NoTensor /\ hb = NoTensor /\ vb = NoTensor
    /\ n_gibbs_steps = 0 /\ batch_size = 0
    /\ h0_means = NoTensor /\ h0_samples = NoTensor
    /\ h_means = NoTensor /\ h_samples = NoTensor
    /\ v_means = NoTensor /\ v_samples = NoTensor
    /\ chain = <<>>
    /\ dW = NoTensor /\ dhb = NoTensor /\ dvb = NoTensor

LifeOff ==
    /\ pc = "off" /\ op = "none" /\ exc = "none" /\ ret = EmptyDict
    /\ result = NoResult
    /\ called_fit = FALSE /\ save_model = FALSE
    /\ max_epoch = 0 /\ compute_metrics_every = 0 /\ momentum = 0
    /\ learning_rate = 0
    /\ epoch = 0 /\ iter = 0
    /\ X = 0 /\ X_val = FALSE /\ batch = 0
    /\ collections = <<>>
    /\ W_ref = 0 /\ train_op = 0 /\ tf_saver = 0
    /\ open_sessions = 0
    /\ sess_vars = <<>>
    /\ params_file = NoFile /\ checkpoint = <<>>
    /\ last_op = "none"
    /\ fit_e0 = 0 /\ fit_grads = <<>>
    /\ fits_completed = FALSE

\* h0_means, h0_samples = self._sample_h_given_v(self._X_batch)
gibbs_chain_start ==
    /\ t_pc = "start"
    /\ h0_means' = sample_h_given_v(X_batch).means
    /\ h0_samples' = sample_h_given_v(X_batch).samples
    /\ h_samples' = sample_h_given_v(X_batch).samples
    /\ t_pc' = "sweep"
    /\ UNCHANGED <<life_vars, X_batch, h_rand, v_rand, W, hb, vb, n_gibbs_steps,
                   batch_size, h_means, v_means, v_samples, chain, dW, dhb, dvb>>

\* a sweep that samples the visible units from the data's hidden samples
gibbs_sweep_from_h0 ==
    /\ t_pc = "sweep"
    /\ Len(chain) < n_gibbs_steps
    /\ LET v == sample_v_given_h(h0_samples)
           h == sample_h_given_v(v.samples)
       IN  /\ v_means' = v.means /\ v_samples' = v.samples
           /\ h_means' = h.means /\ h_samples' = h.samples
           /\ chain' = Append(chain, [h_in |-> h0_samples, v_means |-> v.means,
                                      v_samples |-> v.samples, h_means |-> h.means,
                                      h_samples |-> h.samples])
    /\ UNCHANGED <<life_vars, t_pc, X_batch, h_rand, v_rand, W, hb, vb, n_gibbs_steps,
                   batch_size, h0_means, h0_samples, dW, dhb, dvb>>

\* one pass of `for _ in xrange(self.n_gibbs_steps)`
gibbs_sweep ==
    /\ t_pc = "sweep"
    /\ Len(chain) < n_gibbs_steps
    /\ LET v == sample_v_given_h(h_samples)
           h == sample_h_given_v(v.samples)
       IN  /\ v_means' = v.means /\ v_samples' = v.samples
           /\ h_means' = h.means /\ h_samples' = h.samples
           /\ chain' = Append(chain, [h_in |-> h_samples, v_means |-> v.means,
                                      v_samples |-> v.samples, h_means |-> h.means,
                                      h_samples |-> h.samples])
    /\ UNCHANGED <<life_vars, t_pc, X_batch, h_rand, v_rand, W, hb, vb, n_gibbs_steps,
                   batch_size, h0_means, h0_samples, dW, dhb, dvb>>

\* a quotient, kept exact
Quot(n, d) == [num |-> n, den |-> d]
\* tf.reduce_mean(m, axis=0)[u]: the sum over the rows by the number of rows
reduce_mean(m, u) == Quot(SumTo([r \in Rows |-> m[r][u]], Len(X_batch)), Len(X_batch))
\* q / N
div(q, n) == Quot(q.num, q.den * n)

\* the grads_estimates block, N = tf.constant(self.batch_size)
grads_estimates ==
    /\ t_pc = "sweep"
    /\ Len(chain) = n_gibbs_steps
    /\ LET N == batch_size
           dW_positive(i, j) ==
               SumTo([r \in Rows |-> X_batch[r][i] * h0_means[r][j]], Len(X_batch))
           dW_negative(i, j) ==
               SumTo([r \in Rows |-> v_samples[r][i] * h_means[r][j]], Len(X_batch))
       IN  /\ dW' = [i \in Visible |-> [j \in Hidden |->
                        div(Quot(dW_positive(i, j) - dW_negative(i, j), 1), N)]]
           /\ dhb' = [j \in Hidden |->
                        div(reduce_mean([r \in Rows |-> [u \in Hidden |->
                                h0_means[r][u] - h_means[r][u]]], j), N)]
           /\ dvb' = [i \in Visible |->
                        div(reduce_mean([r \in Rows |-> [u \in Visible |->
                                X_batch[r][u] - v_samples[r][u]]], i), N)]
    /\ t_pc' = "done"
    /\ UNCHANGED <<life_vars, X_batch, h_rand, v_rand, W, hb, vb, n_gibbs_steps,
                   batch_size, h0_means, h0_samples, h_means, h_samples, v_means,
                   v_samples, chain>>

Init == LifeInit /\ TrainOff

Spec == Init /\ [][Next]_vars

InitTrainOp == LifeOff /\ TrainInit

NextTrainOp ==
    \/ gibbs_chain_start
    \/ gibbs_sweep
    \/ grads_estimates

SpecTrainOp == InitTrainOp /\ [][NextTrainOp]_vars

\* ======================================================================
\* Properties
\* ======================================================================

\* a step that calls get_weights
GetWeightsCalled == pc = "idle" /\ op' = "get_weights"
\* a get_weights call that raises err and leaves the model as it was
RaisesUntouched(err) ==
    /\ result' = [op |-> "get_weights", status |-> err, value |-> EmptyDict]
    /\ pc' = "idle"
    /\ last_op' = "none"
    /\ UNCHANGED model_state

C2_GetWeightsReturnsWeights ==
    (result.op = "get_weights" /\ result.status = "ok") =>
        /\ DOMAIN result.value = {W_attr, hb_attr, vb_attr}
        /\ result.value[W_attr] = checkpoint[W_ref].W
        /\ result.value[hb_attr] = checkpoint[W_ref].hb
        /\ result.value[vb_attr] = checkpoint[W_ref].vb

\* the step by which fit leaves its training routine normally
FitLeavesTraining == pc = "fit_loop" /\ pc' = "fit_exit"

\* C3: a fit that returns normally with save_model True has written
\* params.json with the model's parameters and a checkpoint of the
\* variables as they were when training ended, with the session still open.
C3_FitSaves ==
    /\ [][FitLeavesTraining /\ save_model =>
            /\ params_file' = get_params
            /\ checkpoint' = sess_vars
            /\ Len(sess_vars) = Len(collections)
            /\ open_sessions = 1 /\ open_sessions' = 1]_vars
    /\ [](result.op = "fit" /\ result.status = "ok" /\ save_model =>
            /\ params_file = get_params
            /\ Len(checkpoint) = Len(collections))

\* a fit returned normally on a model that saves and had trained before
C3_Witness ==
    /\ pc = "idle" /\ result.op = "fit" /\ result.status = "ok" /\ save_model
    /\ epoch >= 1 /\ last_op = "close"
    /\ params_file = get_params
    /\ Len(checkpoint) = Len(collections)

FrameworkCalls == {"init", "train", "eval", "save", "restore"}

\* C4: no session is open when no operation runs, never more than one is
\* open, and the initialiser, the train op, save and restore run only
\* inside the running operation's open session.
C4_SessionLifecycle ==
    /\ pc = "idle" => open_sessions = 0
    /\ open_sessions <= 1
    /\ last_op \in FrameworkCalls => open_sessions = 1 /\ pc # "idle"

\* a fit whose training raised has ended, its session closed
C4_Witness ==
    /\ pc = "idle" /\ result.op = "fit" /\ result.status = "TypeError"
    /\ last_op = "close" /\ open_sessions = 0 /\ Len(fit_grads) >= 1

\* the velocity of the claim: velocity_0 = 0,
\* velocity_t = momentum * velocity_(t-1) + gradient_estimate_t
RECURSIVE Velocity(_, _)
Velocity(p, t) ==
    IF t = 0 THEN 0 ELSE momentum * Velocity(p, t - 1) + fit_grads[t][p]
RECURSIVE SumVelocity(_, _)
SumVelocity(p, t) ==
    IF t = 0 THEN 0 ELSE learning_rate * Velocity(p, t) + SumVelocity(p, t - 1)

\* C5: after t training steps of a fit each of W, hb and vb is its initial
\* value plus the sum over the steps of learning_rate * velocity, the
\* velocity being carried from step to step.
C5_MomentumCarried ==
    (pc \in {"fit_epoch", "fit_exit"} /\ sess_vars # <<>>) =>
        \A p \in ParamNames :
            sess_vars[train_op][p] = InitVars[p] + SumVelocity(p, Len(fit_grads))

QuotEq(a, b) == a.num * b.den = b.num * a.den
NRows == Len(X_batch)

\* C6: each gradient estimate is positive minus negative association summed
\* over the rows of the batch and divided once by the number of rows.
C6_GradientScaledOnce ==
    t_pc = "done" =>
        /\ \A i \in Visible, j \in Hidden :
              QuotEq(dW[i][j],
                     Quot(SumTo([r \in Rows |-> X_batch[r][i] * h0_means[r][j]
                                        - v_samples[r][i] * h_means[r][j]], NRows),
                          NRows))
        /\ \A j \in Hidden :
              QuotEq(dhb[j],
                     Quot(SumTo([r \in Rows |-> h0_means[r][j] - h_means[r][j]], NRows),
                          NRows))
        /\ \A i \in Visible :
              QuotEq(dvb[i],
                     Quot(SumTo([r \in Rows |-> X_batch[r][i] - v_samples[r][i]], NRows),
                          NRows))

\* a sample is 1 where the noise is below the mean and 0 elsewhere
IsSampleOf(samples, rand, means) ==
    \A r \in DOMAIN means : \A u \in DOMAIN means[r] :
        samples[r][u] = (IF rand[r][u] < means[r][u] THEN 1 ELSE 0)

\* C7: the chain starts from hidden samples of the data, makes exactly
\* n_gibbs_steps sweeps, each sampling v from the previous hidden samples
\* and h from those v samples, and the negative phase uses the last sweep's
\* visible samples and hidden means.
C7_GibbsChain ==
    t_pc = "done" =>
        /\ Len(chain) = n_gibbs_steps
        /\ h0_means = sigmoid_all(propup(X_batch))
        /\ IsSampleOf(h0_samples, h_rand, h0_means)
        /\ chain[1].h_in = h0_samples
        /\ \A s \in 1..Len(chain) :
              /\ s > 1 => chain[s].h_in = chain[s - 1].h_samples
              /\ chain[s].v_means = sigmoid_all(propdown(chain[s].h_in))
              /\ IsSampleOf(chain[s].v_samples, v_rand, chain[s].v_means)
              /\ chain[s].h_means = sigmoid_all(propup(chain[s].v_samples))
              /\ IsSampleOf(chain[s].h_samples, h_rand, chain[s].h_means)
        /\ \A i \in Visible, j \in Hidden :
              dW[i][j].num =
                  SumTo([r \in Rows |-> X_batch[r][i] * h0_means[r][j]
                            - chain[n_gibbs_steps].v_samples[r][i]
                              * chain[n_gibbs_steps].h_means[r][j]], NRows)
        /\ \A j \in Hidden :
              dhb[j].num = SumTo([r \in Rows |-> h0_means[r][j]
                                      - chain[n_gibbs_steps].h_means[r][j]], NRows)
        /\ \A i \in Visible :
              dvb[i].num = SumTo([r \in Rows |-> X_batch[r][i]
                                      - chain[n_gibbs_steps].v_samples[r][i]], NRows)

\* a chain of two sweeps whose second sweep started from other hidden
\* samples than the first
C7_Witness ==
    /\ t_pc = "done" /\ n_gibbs_steps = 2
    /\ chain[2].h_in # chain[1].h_in

\* C8: a fit called at epoch e0 <= max_epoch returns with epoch = max_epoch
\* after max_epoch - e0 epochs of one train step per batch of X.
C8_FitRunsToMaxEpoch ==
    (pc = "idle" /\ result.op = "fit") =>
        /\ result.status = "ok"
        /\ epoch = max_epoch
        /\ Len(fit_grads) = (max_epoch - fit_e0) * X

\* C9: the graph is built once, so each collection holds one entry and the
\* op _fit picks belongs to the variables the model refers to.
C9_GraphBuiltOnce ==
    /\ Len(collections) <= 1
    /\ train_op # 0 => train_op = W_ref

====
